---- MODULE Spec2Model ----
(***************************************************************************)
(* EcoPath backend (src/ecoPath-api/index.js): the POST /get-green-route   *)
(* handler and its helpers, as a state machine of one request.             *)
(*                                                                         *)
(* The handler is one async function; every await is a point where an      *)
(* external provider answers or fails, and is an action of its own.        *)
(*                                                                         *)
(* greenIndex is a JavaScript double, aqiScore*0.6 + solarIndex*0.3 +      *)
(* distanceScore*0.1.  For every combination the helpers can produce       *)
(* (aqiScore in {100,80,60,40,20,5}, solarIndex in {30,40,50},             *)
(* distanceScore in {100,70,40,10}) the double result is exactly the       *)
(* double nearest to (6*aqiScore + 3*solarIndex + distanceScore)/10, so    *)
(* the model keeps greenIndex in tenths, as that integer: order and        *)
(* equality of the doubles are those of the integers.                      *)
(***************************************************************************)
EXTENDS Integers, Sequences, FiniteSets, TLC

VARIABLES
    pc,               \* position of the handler
    routes,           \* routeResponse.data.routes
    i,                \* loop index (0-based)
    evaluatedRoutes,  \* the array built by the loop
    midpoint,         \* local of the loop body
    aqi,              \* local of the loop body
    bestRoute,        \* result of the reduce
    avgAQI,           \* [num, den]: the quotient sum / length
    minAQI,
    maxAQI,
    response,         \* what res.json / res.status(500).json sent
    routingLog,       \* history: how the routing provider answered
    midLog,           \* history: per route, what getRouteMidpoint did
    airLog,           \* history: calls of getAirQuality
    solarLog,         \* history: calls of getSolarIndex
    geminiLog,        \* history: calls of getGeminiExplanation
    sIn,              \* scoring inputs (specification ScoreSpec)
    sOut              \* scoring result (specification ScoreSpec)

vars == <<pc, routes, i, evaluatedRoutes, midpoint, aqi, bestRoute, avgAQI,
          minAQI, maxAQI, response, routingLog, midLog, airLog, solarLog,
          geminiLog, sIn, sOut>>

(* ------------------------------ bounds -------------------------------- *)

MaxRoutes == 2
MaxPts == 2

(* ----------------------------- constants ------------------------------ *)

DefaultAqi == 100
DefaultSunHours == 2000

DefaultSolar == [solarIndex |-> 30, shadeLabel |-> "Unknown"]

FallbackExplanation ==
    "This route is recommended because it has cleaner air, a reasonable walking distance, and better shade for comfort."

(* ------------------------------ inputs -------------------------------- *)

(* route.polyline?.encodedPolyline.  A falsy value (undefined, null, "")  *)
(* is NoPath.  A truthy value is described by what polyline.decode makes   *)
(* of it: a non-empty string decodes to at least one point, a truthy value *)
(* that is no string (an array, an object, a number) to no point at all.   *)
NoPath == [truthy |-> FALSE, points |-> <<>>]
PathOf(n) == [truthy |-> TRUE, points |-> [k \in 1..n |-> <<k, 10 + k>>]]
Paths == {NoPath} \cup {PathOf(n) : n \in 0..MaxPts}

Distances == {1000, 6000}
Durations == {"600s"}

CandidateRoutes ==
    [distanceMeters : Distances, duration : Durations, polyline : Paths]

RECURSIVE SeqsUpTo(_, _)
SeqsUpTo(S, n) ==
    IF n = 0 THEN {<<>>}
    ELSE LET shorter == SeqsUpTo(S, n - 1)
         IN  shorter \cup {Append(s, x) : s \in {t \in shorter : Len(t) = n - 1}, x \in S}

(* air.indexes, as the sequence of the aqi values it reports *)
AirReplies == {<<>>, <<0>>, <<40, 150>>}

(* response.data?.solarPotential?.wholeRoofStats?.yearlySunlightHours,    *)
(* <<>> when the field is absent                                           *)
SolarReplies == {<<>>, <<1200>>, <<1700>>}

GeneratedTexts == {"The chosen route has cleaner air."}

(* ------------------------------ helpers ------------------------------- *)

polylineDecode(path) == path.points

MutGetRouteMidpointOrigin(path) ==
    IF ~path.truthy THEN [kind |-> "point", lat |-> 0, lng |-> 0]
    ELSE LET points == polylineDecode(path)
             mid == Len(points) \div 2
         IN  IF mid + 1 \in DOMAIN points
             THEN [kind |-> "point", lat |-> points[mid + 1][1], lng |-> points[mid + 1][2]]
             ELSE [kind |-> "throw", lat |-> 0, lng |-> 0]

(* points[mid] is undefined for an empty array, and undefined[0] throws *)
getRouteMidpoint(path) ==
    IF ~path.truthy THEN [kind |-> "null", lat |-> 0, lng |-> 0]
    ELSE LET points == polylineDecode(path)
             mid == Len(points) \div 2
         IN  IF mid + 1 \in DOMAIN points
             THEN [kind |-> "point", lat |-> points[mid + 1][1], lng |-> points[mid + 1][2]]
             ELSE [kind |-> "throw", lat |-> 0, lng |-> 0]

(* air.indexes?.[0]?.aqi || 100: 0 is falsy *)
aqiOf(reply) ==
    IF reply = << >> THEN DefaultAqi
    ELSE IF reply[1] = 0 THEN DefaultAqi ELSE reply[1]

(* the try block of getSolarIndex, on the provider's answer *)
solarOf(reply) ==
    LET sunHours == IF reply = << >> \/ reply[1] = 0 THEN DefaultSunHours ELSE reply[1]
        solarIndex == IF sunHours < 1500 THEN 50
                      ELSE IF sunHours < 2000 THEN 40 ELSE 30
    IN  [solarIndex |-> solarIndex,
         shadeLabel |-> IF solarIndex >= 45 THEN "High Shade"
                        ELSE IF solarIndex >= 35 THEN "Moderate Shade"
                        ELSE "Low Shade"]

(* outcome: [ok, reply]; the catch returns the default *)
getSolarIndex(outcome) ==
    IF outcome.ok THEN solarOf(outcome.reply) ELSE DefaultSolar

getAQIScore(a) ==
    IF a <= 50 THEN 100
    ELSE IF a <= 100 THEN 80
    ELSE IF a <= 200 THEN 60
    ELSE IF a <= 300 THEN 40
    ELSE IF a <= 400 THEN 20
    ELSE 5

getDistanceScore(distanceMeters) ==
    IF distanceMeters <= 2000 THEN 100
    ELSE IF distanceMeters <= 5000 THEN 70
    ELSE IF distanceMeters <= 10000 THEN 40
    ELSE 10

MutCalculateGreenIndexWeight(distanceMeters, a, solarIndex) ==
    getAQIScore(a) * 6 + solarIndex * 3 + getDistanceScore(distanceMeters) * 10

(* in tenths: 0.6, 0.3 and 0.1 are 6, 3 and 1 *)
calculateGreenIndex(distanceMeters, a, solarIndex) ==
    getAQIScore(a) * 6 + solarIndex * 3 + getDistanceScore(distanceMeters) * 1

(* outcome: [ok, text]; the catch returns the fixed sentence *)
MutGetGeminiExplanationRaw(outcome) ==
    IF outcome.ok THEN outcome.text ELSE "generateContent failed"

getGeminiExplanation(outcome) ==
    IF outcome.ok THEN outcome.text ELSE FallbackExplanation

(* ----------------------- selection and aggregates ---------------------- *)

MutBetterOfGE(a, b) == IF b.greenIndex >= a.greenIndex THEN b ELSE a

(* the callback of the bestRoute reduce *)
BetterOf(a, b) == IF b.greenIndex > a.greenIndex THEN b ELSE a

(* Array.prototype.reduce without an initial value, on a non-empty array *)
RECURSIVE ReduceBest(_, _, _)
ReduceBest(arr, k, acc) ==
    IF k > Len(arr) THEN acc ELSE ReduceBest(arr, k + 1, BetterOf(acc, arr[k]))

RECURSIVE SumAqi(_, _)
SumAqi(arr, k) == IF k > Len(arr) THEN 0 ELSE arr[k].aqi + SumAqi(arr, k + 1)

AqiValues(arr) == {arr[k].aqi : k \in DOMAIN arr}
MinOf(S) == CHOOSE x \in S : \A y \in S : x <= y
MaxOf(S) == CHOOSE x \in S : \A y \in S : x >= y

MutAggregatesOfBest(arr, best) ==
    [avgAQI |-> [num |-> best.aqi, den |-> 1],
     minAQI |-> best.aqi,
     maxAQI |-> best.aqi]

Aggregates(arr, best) ==
    [avgAQI |-> [num |-> SumAqi(arr, 1), den |-> Len(arr)],
     minAQI |-> MinOf(AqiValues(arr)),
     maxAQI |-> MaxOf(AqiValues(arr))]

(* ------------------------------ responses ----------------------------- *)

NoResponse == [status |-> 0, body |-> [error |-> "", details |-> ""]]
NoRoute == [routeIndex |-> -1]
NoMidpoint == [kind |-> "null", lat |-> 0, lng |-> 0]

ErrorResponse(cause) ==
    [status |-> 500,
     body |-> [error |-> "Failed to calculate green corridor", details |-> cause]]

SuccessResponse(best, evaluated, text) ==
    [status |-> 200,
     body |-> [message |-> "Green corridor selected",
               selected_route |-> best,
               alternative_routes |-> evaluated,
               explanation |-> text]]

EvaluatedRoute(index, route, a, solar) ==
    [routeIndex |-> index,
     distanceMeters |-> route.distanceMeters,
     duration |-> route.duration,
     aqi |-> a,
     greenIndex |-> calculateGreenIndex(route.distanceMeters, a, solar.solarIndex),
     solar |-> solar,
     polyline |-> route.polyline]

(* ------------------------------- state --------------------------------- *)

Init ==
    /\ pc = "routing"
    /\ routes = <<>>
    /\ i = 0
    /\ evaluatedRoutes = <<>>
    /\ midpoint = NoMidpoint
    /\ aqi = DefaultAqi
    /\ bestRoute = NoRoute
    /\ avgAQI = [num |-> 0, den |-> 0]
    /\ minAQI = 0
    /\ maxAQI = 0
    /\ response = NoResponse
    /\ routingLog = "pending"
    /\ midLog = <<>>
    /\ airLog = <<>>
    /\ solarLog = <<>>
    /\ geminiLog = <<>>
    /\ sIn = [distanceMeters |-> 0, aqi |-> 0, solar |-> [ok |-> FALSE, reply |-> <<>>]]
    /\ sOut = [done |-> FALSE, solarIndex |-> 0, greenIndex |-> 0]

scoreVars == <<sIn, sOut>>
logVars == <<routingLog, midLog, airLog, solarLog, geminiLog>>
selVars == <<bestRoute, avgAQI, minAQI, maxAQI>>

(* the catch block of the handler *)
Catch(cause) ==
    /\ pc' = "done"
    /\ response' = ErrorResponse(cause)

(* --------------------------- routing provider ------------------------- *)

(* await axios.post(computeRoutes) answers with a routes array *)
ComputeRoutesOk ==
    /\ pc = "routing"
    /\ \E rs \in SeqsUpTo(CandidateRoutes, MaxRoutes) : routes' = rs
    /\ routingLog' = "ok"
    /\ i' = 0
    /\ evaluatedRoutes' = <<>>
    /\ pc' = "loop"
    /\ UNCHANGED <<midpoint, aqi, selVars, response, midLog, airLog, solarLog,
                   geminiLog, scoreVars>>

(* the answer has no routes field: routes.length throws a TypeError *)
ComputeRoutesNoField ==
    /\ pc = "routing"
    /\ routingLog' = "noroutes"
    /\ Catch("Cannot read properties of undefined (reading 'length')")
    /\ UNCHANGED <<routes, i, evaluatedRoutes, midpoint, aqi, selVars, midLog,
                   airLog, solarLog, geminiLog, scoreVars>>

(* await axios.post(computeRoutes) rejects *)
ComputeRoutesFail ==
    /\ pc = "routing"
    /\ routingLog' = "failed"
    /\ Catch("routing request failed")
    /\ UNCHANGED <<routes, i, evaluatedRoutes, midpoint, aqi, selVars, midLog,
                   airLog, solarLog, geminiLog, scoreVars>>

(* ------------------------------ route loop ---------------------------- *)

InLoop == pc = "loop" /\ i < Len(routes)

(* getRouteMidpoint returned a point: the handler awaits getAirQuality *)
MidpointFound ==
    /\ InLoop
    /\ LET m == getRouteMidpoint(routes[i + 1].polyline)
       IN  /\ m.kind = "point"
           /\ midLog' = Append(midLog, [route |-> i, result |-> m])
           /\ midpoint' = m
    /\ aqi' = DefaultAqi
    /\ pc' = "air"
    /\ UNCHANGED <<routes, i, evaluatedRoutes, selVars, response, routingLog,
                   airLog, solarLog, geminiLog, scoreVars>>

(* getRouteMidpoint returned null: the defaults are scored and pushed *)
MidpointMissing ==
    /\ InLoop
    /\ LET m == getRouteMidpoint(routes[i + 1].polyline)
       IN  /\ m.kind = "null"
           /\ midLog' = Append(midLog, [route |-> i, result |-> m])
    /\ evaluatedRoutes' =
           Append(evaluatedRoutes, EvaluatedRoute(i, routes[i + 1], DefaultAqi, DefaultSolar))
    /\ i' = i + 1
    /\ UNCHANGED <<pc, routes, midpoint, aqi, selVars, response, routingLog,
                   airLog, solarLog, geminiLog, scoreVars>>

(* getRouteMidpoint threw: the catch block answers *)
MidpointThrows ==
    /\ InLoop
    /\ LET m == getRouteMidpoint(routes[i + 1].polyline)
       IN  /\ m.kind = "throw"
           /\ midLog' = Append(midLog, [route |-> i, result |-> m])
    /\ Catch("Cannot read properties of undefined (reading '0')")
    /\ UNCHANGED <<routes, i, evaluatedRoutes, midpoint, aqi, selVars, routingLog,
                   airLog, solarLog, geminiLog, scoreVars>>

(* await getAirQuality resolves *)
AirQualityOk ==
    /\ pc = "air"
    /\ \E reply \in AirReplies :
           /\ airLog' = Append(airLog, [route |-> i, ok |-> TRUE, reply |-> reply])
           /\ aqi' = aqiOf(reply)
    /\ pc' = "solar"
    /\ UNCHANGED <<routes, i, evaluatedRoutes, midpoint, selVars, response,
                   routingLog, midLog, solarLog, geminiLog, scoreVars>>

MutAirQualityFailDefault ==
    /\ pc = "air"
    /\ airLog' = Append(airLog, [route |-> i, ok |-> FALSE, reply |-> <<>>])
    /\ aqi' = DefaultAqi
    /\ pc' = "solar"
    /\ UNCHANGED <<routes, i, evaluatedRoutes, midpoint, selVars, response,
                   routingLog, midLog, solarLog, geminiLog, scoreVars>>

(* await getAirQuality rejects: nothing catches it before the handler's catch *)
AirQualityFail ==
    /\ pc = "air"
    /\ airLog' = Append(airLog, [route |-> i, ok |-> FALSE, reply |-> <<>>])
    /\ Catch("air quality request failed")
    /\ UNCHANGED <<routes, i, evaluatedRoutes, midpoint, aqi, selVars, routingLog,
                   midLog, solarLog, geminiLog, scoreVars>>

SolarOutcomes ==
    [ok : {TRUE}, reply : SolarReplies] \cup {[ok |-> FALSE, reply |-> <<>>]}

(* await getSolarIndex resolves (it never rejects), then the route is scored *)
(* and pushed                                                                *)
SolarDone ==
    /\ pc = "solar"
    /\ \E outcome \in SolarOutcomes :
           /\ solarLog' = Append(solarLog, [route |-> i, ok |-> outcome.ok, reply |-> outcome.reply])
           /\ evaluatedRoutes' =
                  Append(evaluatedRoutes,
                         EvaluatedRoute(i, routes[i + 1], aqi, getSolarIndex(outcome)))
    /\ i' = i + 1
    /\ midpoint' = NoMidpoint
    /\ aqi' = DefaultAqi
    /\ pc' = "loop"
    /\ UNCHANGED <<routes, selVars, response, routingLog, midLog, airLog,
                   geminiLog, scoreVars>>

(* ----------------------- selection and explanation --------------------- *)

LoopOver == pc = "loop" /\ i >= Len(routes)

MutSelectEmptyAnswers ==
    /\ LoopOver
    /\ evaluatedRoutes = <<>>
    /\ pc' = "done"
    /\ response' = SuccessResponse(NoRoute, evaluatedRoutes, "")
    /\ UNCHANGED <<routes, i, evaluatedRoutes, midpoint, aqi, selVars, logVars,
                   scoreVars>>

(* reduce of an empty array with no initial value throws a TypeError *)
SelectEmpty ==
    /\ LoopOver
    /\ evaluatedRoutes = <<>>
    /\ Catch("Reduce of empty array with no initial value")
    /\ UNCHANGED <<routes, i, evaluatedRoutes, midpoint, aqi, selVars, logVars,
                   scoreVars>>

(* bestRoute and the aggregates; the handler then awaits the explanation *)
Select ==
    /\ LoopOver
    /\ evaluatedRoutes # <<>>
    /\ LET best == ReduceBest(evaluatedRoutes, 2, evaluatedRoutes[1])
           agg == Aggregates(evaluatedRoutes, best)
       IN  /\ bestRoute' = best
           /\ avgAQI' = agg.avgAQI
           /\ minAQI' = agg.minAQI
           /\ maxAQI' = agg.maxAQI
    /\ pc' = "explain"
    /\ UNCHANGED <<routes, i, evaluatedRoutes, midpoint, aqi, response, logVars,
                   scoreVars>>

GeminiOutcomes ==
    [ok : {TRUE}, text : GeneratedTexts] \cup {[ok |-> FALSE, text |-> ""]}

(* await getGeminiExplanation resolves (it never rejects), then res.json *)
Explain ==
    /\ pc = "explain"
    /\ \E outcome \in GeminiOutcomes :
           /\ geminiLog' =
                  Append(geminiLog,
                         [ok |-> outcome.ok,
                          arg |-> [distanceMeters |-> bestRoute.distanceMeters,
                                   aqi |-> bestRoute.aqi,
                                   greenIndex |-> bestRoute.greenIndex,
                                   shadeLabel |-> bestRoute.solar.shadeLabel,
                                   avgAQI |-> avgAQI,
                                   minAQI |-> minAQI,
                                   maxAQI |-> maxAQI]])
           /\ response' =
                  SuccessResponse(bestRoute, evaluatedRoutes, getGeminiExplanation(outcome))
    /\ pc' = "done"
    /\ UNCHANGED <<routes, i, evaluatedRoutes, midpoint, aqi, selVars, routingLog,
                   midLog, airLog, solarLog, scoreVars>>

Next ==
    \/ ComputeRoutesOk
    \/ ComputeRoutesNoField
    \/ ComputeRoutesFail
    \/ MidpointFound
    \/ MidpointMissing
    \/ MidpointThrows
    \/ AirQualityOk
    \/ AirQualityFail
    \/ SolarDone
    \/ SelectEmpty
    \/ Select
    \/ Explain

Spec == Init /\ [][Next]_vars

(* ------------------- the scoring functions on their own ---------------- *)

ScoreDistances == {0, 2000, 2001, 5000, 5001, 10000, 10001, 50000}
ScoreAqis == {0, 50, 51, 100, 101, 200, 201, 300, 301, 400, 401, 999}
ScoreSolar ==
    [ok : {TRUE}, reply : {<<>>, <<0>>, <<1200>>, <<1499>>, <<1500>>, <<1999>>, <<2000>>, <<3000>>}]
        \cup {[ok |-> FALSE, reply |-> <<>>]}

ScoreInit ==
    /\ pc = "score"
    /\ routes = <<>>
    /\ i = 0
    /\ evaluatedRoutes = <<>>
    /\ midpoint = NoMidpoint
    /\ aqi = DefaultAqi
    /\ bestRoute = NoRoute
    /\ avgAQI = [num |-> 0, den |-> 0]
    /\ minAQI = 0
    /\ maxAQI = 0
    /\ response = NoResponse
    /\ routingLog = "pending"
    /\ midLog = <<>>
    /\ airLog = <<>>
    /\ solarLog = <<>>
    /\ geminiLog = <<>>
    /\ sIn \in [distanceMeters : ScoreDistances, aqi : ScoreAqis, solar : ScoreSolar]
    /\ sOut = [done |-> FALSE, solarIndex |-> 0, greenIndex |-> 0]

(* getSolarIndex, then calculateGreenIndex on its solarIndex *)
ScoreApply ==
    /\ pc = "score"
    /\ ~sOut.done
    /\ LET solar == getSolarIndex(sIn.solar)
       IN  sOut' = [done |-> TRUE,
                    solarIndex |-> solar.solarIndex,
                    greenIndex |-> calculateGreenIndex(sIn.distanceMeters, sIn.aqi,
                                                       solar.solarIndex)]
    /\ UNCHANGED <<pc, routes, i, evaluatedRoutes, midpoint, aqi, selVars, response,
                   logVars, sIn>>

ScoreNext == ScoreApply

ScoreSpec == ScoreInit /\ [][ScoreNext]_vars

(* ------------------------------ properties ---------------------------- *)

CallsFor(log, index) == Cardinality({j \in DOMAIN log : log[j].route = index})

(* C1: once a route is selected, it has the maximum greenIndex of the      *)
(* evaluated routes, and among the routes that share the maximum it is the *)
(* one with the smallest routeIndex.                                       *)
C1_BestIsFirstMaximum ==
    (pc = "explain" \/ response.status = 200) =>
        /\ \E k \in DOMAIN evaluatedRoutes : evaluatedRoutes[k] = bestRoute
        /\ \A k \in DOMAIN evaluatedRoutes :
               /\ evaluatedRoutes[k].greenIndex <= bestRoute.greenIndex
               /\ evaluatedRoutes[k].greenIndex = bestRoute.greenIndex
                      => bestRoute.routeIndex <= evaluatedRoutes[k].routeIndex
        /\ response.status = 200 => response.body.selected_route = bestRoute

(* a selection was made among routes that tie on the maximum *)
C1_Witness ==
    /\ response.status = 200
    /\ \E k \in DOMAIN evaluatedRoutes :
           /\ evaluatedRoutes[k].routeIndex > bestRoute.routeIndex
           /\ evaluatedRoutes[k].greenIndex = bestRoute.greenIndex
           /\ evaluatedRoutes[k] # bestRoute

(* C2: when the air-quality lookup of any route fails, the request ends in *)
(* the error outcome: the answer carries only the error and its cause, no  *)
(* selected route, no list of evaluated routes, no explanation, and the    *)
(* explanation delegate was not called.                                    *)
C2_AirFailureIsFatal ==
    (\E k \in DOMAIN airLog : ~airLog[k].ok) =>
        /\ pc = "done"
        /\ response.status = 500
        /\ DOMAIN response.body = {"error", "details"}
        /\ geminiLog = <<>>

(* the lookup failed for a later route, after a route had been evaluated *)
C2_Witness ==
    /\ \E k \in DOMAIN airLog : ~airLog[k].ok /\ airLog[k].route >= 1
    /\ evaluatedRoutes # <<>>
    /\ response.status = 500

(* C3: when the routing provider returns an empty list of routes, no route *)
(* is selected, the explanation delegate is never called, and the request  *)
(* ends in the error outcome.                                              *)
C3_EmptyListIsFatal ==
    (routingLog = "ok" /\ routes = <<>>) =>
        /\ response.status # 200
        /\ bestRoute = NoRoute
        /\ geminiLog = <<>>
        /\ pc \in {"loop", "done"}
        /\ pc = "done" =>
               response.status = 500 /\ DOMAIN response.body = {"error", "details"}

(* the request with an empty list has been answered *)
C3_Witness ==
    /\ routingLog = "ok"
    /\ routes = <<>>
    /\ pc = "done"
    /\ response.status = 500

(* C4: a request whose routing and air-quality lookups all succeeded and   *)
(* in which a solar lookup failed ends in success, and each route whose    *)
(* solar lookup failed is recorded with solarIndex 30 and shade "Unknown". *)
C4_SolarFailureNeverFatal ==
    (/\ pc = "done"
     /\ routingLog = "ok"
     /\ \A k \in DOMAIN airLog : airLog[k].ok
     /\ \E k \in DOMAIN solarLog : ~solarLog[k].ok) =>
        /\ response.status = 200
        /\ \A k \in DOMAIN solarLog :
               ~solarLog[k].ok =>
                   response.body.alternative_routes[solarLog[k].route + 1].solar
                       = [solarIndex |-> 30, shadeLabel |-> "Unknown"]

(* C5: when the explanation call fails, the request succeeds and its       *)
(* explanation is the fixed fallback sentence.                             *)
C5_ExplanationFailureFallsBack ==
    (\E k \in DOMAIN geminiLog : ~geminiLog[k].ok) =>
        /\ pc = "done"
        /\ response.status = 200
        /\ response.body.explanation =
               "This route is recommended because it has cleaner air, a reasonable walking distance, and better shade for comfort."

(* the explanation call failed after a selection among two routes *)
C5_Witness ==
    /\ geminiLog # <<>>
    /\ ~geminiLog[1].ok
    /\ Len(evaluatedRoutes) >= 2
    /\ response.status = 200

(* C6: midpoint resolution gives no sample point for an absent path and    *)
(* for a path that decodes to no point (and does not fail there); for a    *)
(* path of count >= 1 points it gives the point at index floor(count/2).   *)
C6_MidpointResolution ==
    \A k \in DOMAIN midLog :
        LET path == routes[midLog[k].route + 1].polyline
            n == Len(path.points)
            r == midLog[k].result
        IN  IF ~path.truthy \/ n = 0
            THEN r.kind = "null"
            ELSE r.kind = "point" /\ <<r.lat, r.lng>> = path.points[(n \div 2) + 1]

(* C7: for a route without an encoded path neither provider is called and  *)
(* its record has aqi 100, solarIndex 30 and shade "Unknown"; the routes   *)
(* with a sample point are looked up once each, and every route handled so *)
(* far has its record.                                                     *)
C7_NoSamplePointNoLookups ==
    /\ \A k \in DOMAIN evaluatedRoutes :
           IF ~routes[k].polyline.truthy
           THEN /\ CallsFor(airLog, k - 1) = 0
                /\ CallsFor(solarLog, k - 1) = 0
                /\ evaluatedRoutes[k].aqi = 100
                /\ evaluatedRoutes[k].solar = [solarIndex |-> 30, shadeLabel |-> "Unknown"]
           ELSE /\ CallsFor(airLog, k - 1) = 1
                /\ CallsFor(solarLog, k - 1) = 1
    /\ pc \in {"loop", "air", "solar", "explain"} => Len(evaluatedRoutes) = i
    /\ response.status = 200 => Len(response.body.alternative_routes) = Len(routes)

(* a route without a path was followed by a route evaluated from lookups *)
C7_Witness ==
    /\ response.status = 200
    /\ Len(routes) = 2
    /\ ~routes[1].polyline.truthy
    /\ routes[2].polyline.truthy
    /\ evaluatedRoutes[2].aqi = 40
    /\ evaluatedRoutes[2].solar.shadeLabel = "High Shade"

(* C8 as claimed: the success answer carries the selected route, the list  *)
(* of evaluated routes, avgAQI, minAQI, maxAQI and the explanation.        *)
C8_CompleteSelectionResult ==
    response.status = 200 =>
        {"selected_route", "alternative_routes", "avgAQI", "minAQI", "maxAQI",
         "explanation"} \subseteq DOMAIN response.body

(* C8 amended: the success answer carries exactly the message, the         *)
(* selected route, the full ordered list of evaluated routes and the       *)
(* explanation; avgAQI, minAQI and maxAQI are computed over all evaluated  *)
(* routes and handed to the explanation delegate only.                     *)
C8_SuccessShape ==
    response.status = 200 =>
        /\ DOMAIN response.body =
               {"message", "selected_route", "alternative_routes", "explanation"}
        /\ response.body.selected_route = bestRoute
        /\ response.body.alternative_routes = evaluatedRoutes
        /\ Len(evaluatedRoutes) = Len(routes)
        /\ \A k \in DOMAIN evaluatedRoutes : evaluatedRoutes[k].routeIndex = k - 1
        /\ Len(geminiLog) = 1
        /\ LET arg == geminiLog[1].arg
           IN  /\ arg.avgAQI = [num |-> SumAqi(evaluatedRoutes, 1), den |-> Len(evaluatedRoutes)]
               /\ \A k \in DOMAIN evaluatedRoutes :
                      arg.minAQI <= evaluatedRoutes[k].aqi /\ evaluatedRoutes[k].aqi <= arg.maxAQI
               /\ \E k \in DOMAIN evaluatedRoutes : arg.minAQI = evaluatedRoutes[k].aqi
               /\ \E k \in DOMAIN evaluatedRoutes : arg.maxAQI = evaluatedRoutes[k].aqi

(* a success whose selected route has neither the only nor the largest aqi *)
C8_Witness ==
    /\ response.status = 200
    /\ Len(evaluatedRoutes) >= 2
    /\ minAQI < maxAQI
    /\ bestRoute.aqi # maxAQI

(* C9: every scored route has 0 <= greenIndex <= 100 (0..1000 in tenths),  *)
(* for every distance, every aqi >= 0 and every solarIndex getSolarIndex   *)
(* produces, which is one of 30, 40, 50.                                   *)
C9_GreenIndexInRange ==
    sOut.done =>
        /\ sOut.solarIndex \in {30, 40, 50}
        /\ 0 <= sOut.greenIndex
        /\ sOut.greenIndex <= 1000

(* the best case of every sub-score: clean air, high shade, short walk *)
C9_Witness ==
    /\ sOut.done
    /\ sIn.aqi <= 50
    /\ sIn.distanceMeters <= 2000
    /\ sOut.solarIndex = 50
    /\ sOut.greenIndex = 850

(* C10: when the air-quality lookup succeeds, the route's aqi is the first *)
(* reported index value, whatever value >= 0 it is, and 100 only when no   *)
(* index is reported.                                                      *)
C10_AqiIsFirstReportedIndex ==
    \A k \in DOMAIN evaluatedRoutes :
        \A j \in DOMAIN airLog :
            (airLog[j].route = k - 1 /\ airLog[j].ok) =>
                evaluatedRoutes[k].aqi =
                    IF airLog[j].reply = <<>> THEN 100 ELSE airLog[j].reply[1]

====
